---- MODULE Spec2Model ----
(***************************************************************************)
(* Verification pipeline of the hallucination-detection service:           *)
(* citation validation, claim analysis, tallying and trust score.          *)
(* Two variants of the pipeline exist in the repository:                   *)
(*   "backend"  src/backend/main.py                                        *)
(*   "root"     src/main.py                                                *)
(* Scores are fixed-point: accessibility, confidence and probabilities are *)
(* hundredths (100 = 1.0); the trust score is an exact fraction num/den.   *)
(* Python computes them in binary floating point, so a value written here  *)
(* as 10 may be 0.09999999999999998 in the program.                        *)
(***************************************************************************)
EXTENDS Integers, Sequences, FiniteSets, TLC

VARIABLES
    variant,              \* which of the two main.py files is running
    hallucination_model,  \* ml_models.hallucination_model is not None
    zero_shot_classifier, \* ml_models.zero_shot_classifier is not None
    ner_pipeline,         \* ml_models.ner_pipeline is not None
    current_year,         \* datetime.now().year
    \* ---- the MLModels singleton ----
    instances,            \* MLModels objects created so far (_instance is set when >= 1)
    models_loaded,        \* MLModels._models_loaded
    load_models_calls,    \* number of times load_models has been entered
    constructions,        \* MLModels() calls started so far
    served,               \* requests handled so far by the running service
    mpc,                  \* position inside MLModels() / load_models
    \* ---- one call of MLCitationValidator.validate_citation ----
    vpc,                  \* position inside validate_citation
    citation,             \* argument: the Citation
    use_ml,               \* argument
    status, reasons, accessibility_score, ml_analysis,   \* its locals
    link_checks,          \* verify_url calls made by this call
    call_log,             \* what the earlier calls were given and returned
    \* ---- one call of MLClaimAnalyzer.analyze_claim ----
    apc,                  \* position inside analyze_claim
    a_claim,              \* argument claim: the sentence
    a_use_ml,             \* argument use_ml
    a_flags, a_confidence, a_ml_prediction,              \* locals flags, confidence, ml_prediction
    a_risk_level,         \* local risk_level, "" until computed
    \* ---- one request handled by verify_content ----
    pc,                   \* position inside verify_content
    request,              \* VerificationRequest
    citations,            \* local: extracted citations
    sentences,            \* local: retained sentences
    idx,                  \* loop position
    results,              \* local: results["citations"], ["claims"], ["summary"]
    response              \* the VerificationResponse, <<>> until returned

modelvars == <<hallucination_model, zero_shot_classifier, ner_pipeline>>
loadvars == <<instances, models_loaded, load_models_calls, constructions, served, mpc>>
envvars == <<variant, modelvars, current_year, loadvars>>
valvars == <<vpc, citation, use_ml, status, reasons, accessibility_score, ml_analysis,
             link_checks, call_log>>
anavars == <<apc, a_claim, a_use_ml, a_flags, a_confidence, a_ml_prediction, a_risk_level>>
reqvars == <<pc, request, citations, sentences, idx, results, response>>
vars == <<envvars, valvars, anavars, reqvars>>

----------------------------------------------------------------------------
(* Bounds *)

\* the calendar year the clock shows
ClockYear == 2026
\* citation-bearing spans plus sentence pieces of a request's content
MaxItems == 3
\* length of the long documents (one piece repeated)
LongLen == 11

----------------------------------------------------------------------------
(* Data model *)

VERIFIED == "verified"
UNVERIFIED == "unverified"
SUSPICIOUS == "suspicious"
BROKEN == "broken"
FAKE == "fake"
HALLUCINATED == "hallucinated"

VerificationStatus == {VERIFIED, UNVERIFIED, SUSPICIOUS, BROKEN, FAKE, HALLUCINATED}

\* Optional[...] = None: an optional value is a sequence of length 0 or 1
None == <<>>
Some(x) == <<x>>

\* Citation.url: Optional[str] = None
NoUrl == "None"
\* Citation.year: Optional[int] = None
NoYear == -1

Max(a, b) == IF a >= b THEN a ELSE b
Min(a, b) == IF a <= b THEN a ELSE b

Citation(text, url, year, entities) ==
    [text |-> text, url |-> url, year |-> year, entities |-> entities]

MLPrediction(is_hallucination, confidence, model_score, reasoning) ==
    [is_hallucination |-> is_hallucination, confidence |-> confidence,
     model_score |-> model_score, reasoning |-> reasoning]

CitationResult(c, st, rs, acc, ml) ==
    [citation |-> c, status |-> st, reasons |-> rs,
     accessibility_score |-> acc, ml_analysis |-> ml]

----------------------------------------------------------------------------
(* External collaborators.  A pretrained model is a function of its input  *)
(* text and a URL has one state of the world, so the answers are fixed per *)
(* text and per URL.                                                       *)

\* what the sequence-classification model computes for a text: raises when
\* tokenisation or inference throws, else the probability of the flagged
\* class (c) and of the opposite class (e), in hundredths
Texts == {"sound", "dubious", "borderline", "barely", "garbled"}
Inference(text) ==
    CASE text = "sound"      -> [raises |-> FALSE, c |-> 10, e |-> 80]
      [] text = "dubious"    -> [raises |-> FALSE, c |-> 90, e |-> 5]
      [] text = "borderline" -> [raises |-> FALSE, c |-> 50, e |-> 50]
      [] text = "barely"     -> [raises |-> FALSE, c |-> 51, e |-> 49]
      [] OTHER               -> [raises |-> TRUE, c |-> 0, e |-> 0]

\* what requests.head does for a URL
Urls == {"up", "gone", "slow", "refused", "weird", "malformed"}
HttpHead(url) ==
    CASE url = "up"      -> [raises |-> "", status_code |-> 200]
      [] url = "gone"    -> [raises |-> "", status_code |-> 404]
      [] url = "slow"    -> [raises |-> "Timeout", status_code |-> 0]
      [] url = "refused" -> [raises |-> "ConnectionError", status_code |-> 0]
      [] OTHER           -> [raises |-> "Exception", status_code |-> 0]

\* entity lists the NER pipeline may return (entity_group of each entity)
EntityLists == {<<>>, <<"ORG">>, <<"PER">>, <<"PER", "ORG", "PER">>}

\* what the NER pipeline computes for a text
Ner(text) ==
    CASE text = "sound"   -> [raises |-> FALSE, groups |-> <<"PER", "ORG", "PER">>]
      [] text = "dubious" -> [raises |-> FALSE, groups |-> <<"ORG">>]
      [] text = "garbled" -> [raises |-> TRUE, groups |-> <<>>]
      [] OTHER            -> [raises |-> FALSE, groups |-> <<>>]

\* what the zero-shot pipeline computes for a text: <<label, score>> pairs,
\* highest score first, scores in hundredths
ZeroShot(text) ==
    CASE text = "sound" ->
             [raises |-> FALSE,
              pairs |-> <<<<"factual statement", 80>>, <<"opinion or speculation", 20>>>>]
      [] text = "dubious" ->
             [raises |-> FALSE,
              pairs |-> <<<<"opinion or speculation", 75>>, <<"factual statement", 25>>>>]
      [] text = "borderline" ->
             [raises |-> FALSE,
              pairs |-> <<<<"opinion or speculation", 70>>, <<"statistical claim", 30>>>>]
      [] text = "barely" ->
             [raises |-> FALSE,
              pairs |-> <<<<"statistical claim", 50>>, <<"opinion or speculation", 50>>>>]
      [] OTHER -> [raises |-> TRUE, pairs |-> <<>>]

----------------------------------------------------------------------------
(* MLHallucinationDetector.detect_hallucination *)

\* a failed inference reported as a flagged verdict
detect_hallucination_ErrorFlags(text) ==
    IF ~hallucination_model
    THEN MLPrediction(FALSE, 50, 50, "ML model not loaded")
    ELSE IF Inference(text).raises
    THEN MLPrediction(TRUE, 50, 50, "ML prediction error")
    ELSE LET p == Inference(text) IN
         MLPrediction(p.c > 50, Max(p.c, p.e), p.c,
                      IF p.c > 50 THEN "ML model detected hallucination"
                                  ELSE "ML model suggests factual content")

detect_hallucination(text) ==
    IF ~hallucination_model
    THEN MLPrediction(FALSE, 50, 50, "ML model not loaded")
    ELSE IF Inference(text).raises
    THEN MLPrediction(FALSE, 50, 50, "ML prediction error")
    ELSE LET p == Inference(text) IN
         MLPrediction(p.c > 50, Max(p.c, p.e), p.c,
                      IF p.c > 50 THEN "ML model detected hallucination"
                                  ELSE "ML model suggests factual content")

(* MLHallucinationDetector.classify_claim_type, extract_entities *)

classify_claim_type(text) ==
    IF ~zero_shot_classifier THEN <<>>
    ELSE IF ZeroShot(text).raises THEN <<>>
    ELSE ZeroShot(text).pairs

extract_entities(text) ==
    IF ~ner_pipeline THEN <<>>
    ELSE IF Ner(text).raises THEN <<>>
    ELSE Ner(text).groups

(* LinkVerifier.verify_url *)

\* head_requests counts the requests.head calls the check made
verify_url(url) ==
    IF url = "malformed"
    THEN [accessible |-> FALSE, error |-> "Invalid URL format", head_requests |-> 0]
    ELSE LET r == HttpHead(url) IN
         CASE r.raises = ""
                -> [accessible |-> r.status_code < 400, error |-> "None", head_requests |-> 1]
           [] r.raises = "Timeout"
                -> [accessible |-> FALSE, error |-> "Timeout", head_requests |-> 1]
           [] r.raises = "ConnectionError"
                -> [accessible |-> FALSE, error |-> "Connection failed", head_requests |-> 1]
           [] OTHER
                -> [accessible |-> FALSE, error |-> "str(e)", head_requests |-> 1]

----------------------------------------------------------------------------
(* MLCitationValidator.validate_citation, rule by rule.  A frame f holds   *)
(* the locals status, reasons, accessibility_score and ml_analysis.        *)

Frame(st, rs, acc, ml) ==
    [status |-> st, reasons |-> rs, accessibility_score |-> acc, ml_analysis |-> ml]

InitialFrame == Frame(VERIFIED, <<>>, 100, None)

\* 1. semantic check
SemanticRule(f, c, ml) ==
    IF ml /\ hallucination_model
    THEN LET a == detect_hallucination(c.text) IN
         IF a.is_hallucination
         THEN Frame(HALLUCINATED,
                    Append(f.reasons, <<"ML Model", a.reasoning>>),
                    f.accessibility_score - 40, Some(a))
         ELSE [f EXCEPT !.ml_analysis = Some(a)]
    ELSE f

\* 2. URL reachability
\* variants of rule 2 with a plausible slip, used to test the properties below
UrlRule_MissingUrlKeepsStatus(f, c) ==
    IF c.url # NoUrl
    THEN LET link_check == verify_url(c.url) IN
         IF ~link_check.accessible
         THEN [f EXCEPT !.status = BROKEN,
                        !.reasons = Append(@, <<"URL not accessible", link_check.error>>),
                        !.accessibility_score = @ - 50]
         ELSE [f EXCEPT !.reasons = Append(@, <<"URL is accessible", "">>)]
    ELSE [f EXCEPT !.reasons = Append(@, <<"No URL provided for verification", "">>),
                   !.accessibility_score = @ - 30]

UrlRule_BrokenKeepsHallucinated(f, c) ==
    IF c.url # NoUrl
    THEN LET link_check == verify_url(c.url) IN
         IF ~link_check.accessible
         THEN [f EXCEPT !.status = IF @ # HALLUCINATED THEN BROKEN ELSE @,
                        !.reasons = Append(@, <<"URL not accessible", link_check.error>>),
                        !.accessibility_score = @ - 50]
         ELSE [f EXCEPT !.reasons = Append(@, <<"URL is accessible", "">>)]
    ELSE [f EXCEPT !.status = IF @ # HALLUCINATED THEN SUSPICIOUS ELSE @,
                   !.reasons = Append(@, <<"No URL provided for verification", "">>),
                   !.accessibility_score = @ - 30]

UrlRule_MissingUrlAlwaysSuspicious(f, c) ==
    IF c.url # NoUrl
    THEN LET link_check == verify_url(c.url) IN
         IF ~link_check.accessible
         THEN [f EXCEPT !.status = BROKEN,
                        !.reasons = Append(@, <<"URL not accessible", link_check.error>>),
                        !.accessibility_score = @ - 50]
         ELSE [f EXCEPT !.reasons = Append(@, <<"URL is accessible", "">>)]
    ELSE [f EXCEPT !.status = SUSPICIOUS,
                   !.reasons = Append(@, <<"No URL provided for verification", "">>),
                   !.accessibility_score = @ - 30]

UrlRule(f, c) ==
    IF c.url # NoUrl
    THEN LET link_check == verify_url(c.url) IN
         IF ~link_check.accessible
         THEN [f EXCEPT !.status = BROKEN,
                        !.reasons = Append(@, <<"URL not accessible", link_check.error>>),
                        !.accessibility_score = @ - 50]
         ELSE [f EXCEPT !.reasons = Append(@, <<"URL is accessible", "">>)]
    ELSE [f EXCEPT !.status = IF @ # HALLUCINATED THEN SUSPICIOUS ELSE @,
                   !.reasons = Append(@, <<"No URL provided for verification", "">>),
                   !.accessibility_score = @ - 30]

\* 3. year plausibility; "if citation.year:" is false for None and for 0
YearRule_FutureFromThisYear(f, c) ==
    IF c.year # NoYear /\ c.year # 0
    THEN IF c.year >= current_year
         THEN [f EXCEPT !.status = FAKE,
                        !.reasons = Append(@, <<"Future year detected", ToString(c.year)>>),
                        !.accessibility_score = @ - 40]
         ELSE IF c.year < 1800
         THEN [f EXCEPT !.status = SUSPICIOUS,
                        !.reasons = Append(@, <<"Unusually old year", ToString(c.year)>>),
                        !.accessibility_score = @ - 20]
         ELSE f
    ELSE f

YearRule_FutureKeepsBroken(f, c) ==
    IF c.year # NoYear /\ c.year # 0
    THEN IF c.year > current_year
         THEN [f EXCEPT !.status = IF @ # BROKEN THEN FAKE ELSE @,
                        !.reasons = Append(@, <<"Future year detected", ToString(c.year)>>),
                        !.accessibility_score = @ - 40]
         ELSE IF c.year < 1800
         THEN [f EXCEPT !.status = SUSPICIOUS,
                        !.reasons = Append(@, <<"Unusually old year", ToString(c.year)>>),
                        !.accessibility_score = @ - 20]
         ELSE f
    ELSE f

YearRule(f, c) ==
    IF c.year # NoYear /\ c.year # 0
    THEN IF c.year > current_year
         THEN [f EXCEPT !.status = FAKE,
                        !.reasons = Append(@, <<"Future year detected", ToString(c.year)>>),
                        !.accessibility_score = @ - 40]
         ELSE IF c.year < 1800
         THEN [f EXCEPT !.status = SUSPICIOUS,
                        !.reasons = Append(@, <<"Unusually old year", ToString(c.year)>>),
                        !.accessibility_score = @ - 20]
         ELSE f
    ELSE f

\* 4. entity annotation
Persons(entities) == SelectSeq(entities, LAMBDA e : e = "PER")

EntityRule(f, c) ==
    IF Len(c.entities) > 0 /\ Len(Persons(c.entities)) > 0
    THEN [f EXCEPT !.reasons =
             Append(@, <<"ML detected person entities", ToString(Len(Persons(c.entities)))>>)]
    ELSE f

\* 5. lower clamp
\* the score returned as the subtractions left it
ClampRule_Missing(f) == f

ClampRule(f) == [f EXCEPT !.accessibility_score = Max(0, @)]

\* the whole call
validate_citation(c, ml) ==
    LET f == ClampRule(EntityRule(YearRule(UrlRule(SemanticRule(InitialFrame, c, ml), c), c), c))
    IN CitationResult(c, f.status, f.reasons, f.accessibility_score, f.ml_analysis)

----------------------------------------------------------------------------
(* One call of validate_citation, a rule at a time.                        *)

\* 4-digit years the extractor can produce, and no year
Years == {NoYear, 0, 1, 1799, 1800, ClockYear - 1, ClockYear, ClockYear + 1, 9999}

Citations ==
    {Citation(t, u, y, e) : t \in Texts, u \in Urls \cup {NoUrl}, y \in Years, e \in EntityLists}

\* ml_models = MLModels() has run once when the module was imported
LoadedAtImport ==
    /\ instances = 1
    /\ models_loaded = TRUE
    /\ load_models_calls = 1
    /\ constructions = 1
    /\ served = 0
    /\ mpc = "ready"

EnvInit ==
    /\ variant \in {"backend", "root"}
    \* load_models loads all three or, on any exception, none
    /\ hallucination_model \in BOOLEAN
    /\ zero_shot_classifier = hallucination_model
    /\ ner_pipeline = hallucination_model
    /\ current_year = ClockYear
    /\ LoadedAtImport

RequestIdle ==
    /\ pc = "off"
    /\ request = <<>>
    /\ citations = <<>>
    /\ sentences = <<>>
    /\ idx = 0
    /\ results = <<>>
    /\ response = <<>>

AnalyzeIdle ==
    /\ apc = "off"
    /\ a_claim = <<>>
    /\ a_use_ml = FALSE
    /\ a_flags = <<>>
    /\ a_confidence = 50
    /\ a_ml_prediction = None
    /\ a_risk_level = ""

CurrentFrame == Frame(status, reasons, accessibility_score, ml_analysis)

SetFrame(f) ==
    /\ status' = f.status
    /\ reasons' = f.reasons
    /\ accessibility_score' = f.accessibility_score
    /\ ml_analysis' = f.ml_analysis

InitValidate ==
    /\ EnvInit
    /\ RequestIdle
    /\ AnalyzeIdle
    /\ link_checks = <<>>
    /\ call_log = <<>>
    /\ citation \in Citations
    /\ use_ml \in BOOLEAN
    /\ vpc = "semantic"
    /\ status = InitialFrame.status
    /\ reasons = InitialFrame.reasons
    /\ accessibility_score = InitialFrame.accessibility_score
    /\ ml_analysis = InitialFrame.ml_analysis

\* one verify_url call: the URL it was given and the requests it made
LinkCheck(url) == [url |-> url, head_requests |-> verify_url(url).head_requests]

\* a failed check made a second time
UrlRuleCalls_RetryOnFailure(c) ==
    IF c.url # NoUrl
    THEN IF verify_url(c.url).accessible
         THEN <<LinkCheck(c.url)>>
         ELSE <<LinkCheck(c.url), LinkCheck(c.url)>>
    ELSE <<>>

\* the verify_url calls of the URL rule: one for a citation with a URL
UrlRuleCalls(c) == IF c.url # NoUrl THEN <<LinkCheck(c.url)>> ELSE <<>>

\* return CitationResult(citation=citation, status=status, ...)
ReturnValue(f) == CitationResult(citation, f.status, f.reasons, f.accessibility_score, f.ml_analysis)

\* one finished call: its arguments and what it returned
Call(c, ml, result) == [citation |-> c, use_ml |-> ml, result |-> result]

SemanticCheck ==
    /\ vpc = "semantic"
    /\ SetFrame(SemanticRule(CurrentFrame, citation, use_ml))
    /\ vpc' = "url"
    /\ UNCHANGED <<envvars, anavars, reqvars, citation, use_ml, link_checks, call_log>>

UrlCheck ==
    /\ vpc = "url"
    /\ SetFrame(UrlRule(CurrentFrame, citation))
    /\ link_checks' = link_checks \o UrlRuleCalls(citation)
    /\ vpc' = "year"
    /\ UNCHANGED <<envvars, anavars, reqvars, citation, use_ml, call_log>>

YearCheck ==
    /\ vpc = "year"
    /\ SetFrame(YearRule(CurrentFrame, citation))
    /\ vpc' = "entity"
    /\ UNCHANGED <<envvars, anavars, reqvars, citation, use_ml, link_checks, call_log>>

EntityCheck ==
    /\ vpc = "entity"
    /\ SetFrame(EntityRule(CurrentFrame, citation))
    /\ vpc' = "clamp"
    /\ UNCHANGED <<envvars, anavars, reqvars, citation, use_ml, link_checks, call_log>>

ClampReturn ==
    /\ vpc = "clamp"
    /\ SetFrame(ClampRule(CurrentFrame))
    /\ call_log' = Append(call_log, Call(citation, use_ml, ReturnValue(ClampRule(CurrentFrame))))
    /\ vpc' = "returned"
    /\ UNCHANGED <<envvars, anavars, reqvars, citation, use_ml, link_checks>>

NextValidate == SemanticCheck \/ UrlCheck \/ YearCheck \/ EntityCheck \/ ClampReturn

SpecValidate == InitValidate /\ [][NextValidate]_vars

----------------------------------------------------------------------------
(* MLClaimAnalyzer.analyze_claim.  A sentence is what the analyzer can see *)
(* of it: its text (for the models), its stripped length, the suspicious   *)
(* patterns that match it, whether the statistics pattern matches it and   *)
(* whether the source pattern (URL or "according to") matches it.          *)

Sentence(text, len, patterns, numeric, sourced) ==
    [text |-> text, len |-> len, patterns |-> patterns,
     numeric |-> numeric, sourced |-> sourced]

ClaimResult(claim, confidence, risk_level, flags, ml_prediction) ==
    [claim |-> claim, confidence |-> confidence, risk_level |-> risk_level,
     flags |-> flags, ml_prediction |-> ml_prediction]

\* locals flags, confidence, ml_prediction
Analysis(flags, confidence, ml_prediction) ==
    [flags |-> flags, confidence |-> confidence, ml_prediction |-> ml_prediction]

InitialAnalysis == Analysis(<<>>, 50, None)

\* max(claim_types.items(), key=lambda x: x[1]): the first pair of highest score
TopType(pairs) ==
    LET best == CHOOSE i \in 1..Len(pairs) :
                    /\ \A j \in 1..Len(pairs) : pairs[j][2] <= pairs[i][2]
                    /\ \A j \in 1..(i - 1) : pairs[j][2] < pairs[i][2]
    IN pairs[best]

ClaimTypeStep(a, claim) ==
    IF zero_shot_classifier
    THEN LET claim_types == classify_claim_type(claim.text) IN
         IF Len(claim_types) > 0
            /\ TopType(claim_types)[1] = "opinion or speculation"
            /\ TopType(claim_types)[2] > 70
         THEN [a EXCEPT !.flags = Append(@, "Likely opinion/speculation"),
                        !.confidence = @ + 15]
         ELSE a
    ELSE a

\* the two confidence assignments exchanged
SemanticStep_Swapped(a, claim, ml) ==
    IF ml /\ hallucination_model
    THEN LET p == detect_hallucination(claim.text) IN
         ClaimTypeStep(
             IF p.is_hallucination
             THEN Analysis(Append(a.flags, "ML Model"), 100 - p.model_score, Some(p))
             ELSE Analysis(a.flags, p.model_score, Some(p)),
             claim)
    ELSE a

SemanticStep(a, claim, ml) ==
    IF ml /\ hallucination_model
    THEN LET p == detect_hallucination(claim.text) IN
         ClaimTypeStep(
             IF p.is_hallucination
             THEN Analysis(Append(a.flags, "ML Model"), p.model_score, Some(p))
             ELSE Analysis(a.flags, 100 - p.model_score, Some(p)),
             claim)
    ELSE a

SUSPICIOUS_PATTERNS == 1..4

RECURSIVE LexicalStep_EveryPattern(_, _)
\* the scan going on after a match: one flag and one bump per matching pattern
LexicalStep_EveryPattern(a, claim) ==
    IF \E k \in SUSPICIOUS_PATTERNS : k \in claim.patterns
    THEN LET k == CHOOSE k \in SUSPICIOUS_PATTERNS : k \in claim.patterns IN
         LexicalStep_EveryPattern(
             [a EXCEPT !.flags = Append(@, "Overconfident language detected"),
                       !.confidence = @ + 10],
             [claim EXCEPT !.patterns = @ \ {k}])
    ELSE a

\* the lexical rule lowering the confidence
LexicalStep_Lowers(a, claim) ==
    IF \E k \in SUSPICIOUS_PATTERNS : k \in claim.patterns
    THEN [a EXCEPT !.flags = Append(@, "Overconfident language detected"),
                   !.confidence = @ - 10]
    ELSE a

\* for pattern in SUSPICIOUS_PATTERNS: ... break
LexicalStep(a, claim) ==
    IF \E k \in SUSPICIOUS_PATTERNS : k \in claim.patterns
    THEN [a EXCEPT !.flags = Append(@, "Overconfident language detected"),
                   !.confidence = @ + 10]
    ELSE a

StatisticStep(a, claim) ==
    IF claim.numeric /\ ~claim.sourced
    THEN [a EXCEPT !.flags = Append(@, "Specific statistics without source"),
                   !.confidence = @ + 10]
    ELSE a

\* MEDIUM only above 0.5
RiskLevel_MediumAboveHalf(confidence) ==
    IF confidence >= 70 THEN "HIGH"
    ELSE IF confidence > 50 THEN "MEDIUM"
    ELSE "LOW"

\* HIGH only above 0.7
RiskLevel_Strict(confidence) ==
    IF confidence > 70 THEN "HIGH"
    ELSE IF confidence >= 50 THEN "MEDIUM"
    ELSE "LOW"

RiskLevel(confidence) ==
    IF confidence >= 70 THEN "HIGH"
    ELSE IF confidence >= 50 THEN "MEDIUM"
    ELSE "LOW"

\* if not flags: flags = ["No obvious hallucination indicators"]
ResultFlags(flags) ==
    IF Len(flags) = 0 THEN <<"No obvious hallucination indicators">> ELSE flags

analyze_claim(claim, ml) ==
    LET a == StatisticStep(LexicalStep(SemanticStep(InitialAnalysis, claim, ml), claim), claim)
        confidence == Min(a.confidence, 100)
    IN ClaimResult(claim, confidence, RiskLevel(confidence), ResultFlags(a.flags),
                   a.ml_prediction)

----------------------------------------------------------------------------
(* MLCitationExtractor.extract_citations.  The content of a request is     *)
(* what the patterns see of it: the citation-bearing spans ("tokens") in   *)
(* text order, each matched by the APA pattern, the bracket pattern or the *)
(* URL pattern alone, and the pieces re.split cuts the content into.  The  *)
(* optional URL that ends an APA match is matched by the URL pattern too:   *)
(* bare_url is what the URL pattern captures in the span, the same URL     *)
(* unless it runs on, with no white space, from a URL inside the title.    *)

Token(grammar, text, year, url, url_text) ==
    [grammar |-> grammar, text |-> text, year |-> year, url |-> url, url_text |-> url_text,
     bare_url |-> url]

\* "Author (year). http://a.https://b": the APA pattern captures https://b,
\* the URL pattern captures the whole run http://a.https://b
RunOnToken(text, year, url, url_text, bare_url) ==
    [Token("apa", text, year, url, url_text) EXCEPT !.bare_url = bare_url]

RECURSIVE ApaMatches(_), BracketMatches(_), UrlMatches(_), UrlMatches_SkipsApaUrls(_)

ApaMatches(tokens) ==
    IF tokens = <<>> THEN <<>>
    ELSE LET t == Head(tokens) IN
         (IF t.grammar = "apa"
          THEN <<Citation(t.text, t.url, t.year, extract_entities(t.text))>>
          ELSE <<>>) \o ApaMatches(Tail(tokens))

BracketMatches(tokens) ==
    IF tokens = <<>> THEN <<>>
    ELSE LET t == Head(tokens) IN
         (IF t.grammar = "bracket"
          THEN <<Citation(t.text, NoUrl, t.year, extract_entities(t.text))>>
          ELSE <<>>) \o BracketMatches(Tail(tokens))

\* the URL pattern passing over the URLs the APA pattern captured
UrlMatches_SkipsApaUrls(tokens) ==
    IF tokens = <<>> THEN <<>>
    ELSE LET t == Head(tokens) IN
         (IF t.bare_url # NoUrl /\ t.grammar # "apa"
          THEN <<Citation(t.url_text, t.bare_url, NoYear, <<>>)>>
          ELSE <<>>) \o UrlMatches_SkipsApaUrls(Tail(tokens))

UrlMatches(tokens) ==
    IF tokens = <<>> THEN <<>>
    ELSE LET t == Head(tokens) IN
         (IF t.bare_url # NoUrl
          THEN <<Citation(t.url_text, t.bare_url, NoYear, <<>>)>>
          ELSE <<>>) \o UrlMatches(Tail(tokens))

extract_citations(content) ==
    ApaMatches(content.tokens) \o BracketMatches(content.tokens) \o UrlMatches(content.tokens)

\* len(s.strip()) > 20 in src/backend/main.py, > 10 in src/main.py
MinSentenceLength == IF variant = "backend" THEN 20 ELSE 10

split_sentences(content) ==
    SelectSeq(content.pieces, LAMBDA s : s.len > MinSentenceLength)

\* sentences[:10] in src/backend/main.py, all sentences in src/main.py
ClaimCap == 10

AnalyzedCount(n) == IF variant = "backend" THEN Min(n, ClaimCap) ELSE n

----------------------------------------------------------------------------
(* Trust score.  Fractions num/den with den > 0.                           *)

Frac(n, d) == [num |-> n, den |-> d]
One == Frac(1, 1)
Times(x, y) == Frac(x.num * y.num, x.den * y.den)
FracEq(x, y) == x.num * y.den = y.num * x.den
FracLeq(x, y) == x.num * y.den <= y.num * x.den
\* max(0.0, min(1.0, x))
Clamp01(x) == IF x.num > x.den THEN One ELSE IF x.num < 0 THEN Frac(0, 1) ELSE x

\* src/backend/main.py: 0.3 + 0.7 * verified / total
BackendCitationFactor_Swapped(s) ==
    IF s.total_citations > 0
    THEN Frac(7 * s.total_citations + 3 * s.verified_citations, 10 * s.total_citations)
    ELSE One

BackendCitationFactor(s) ==
    IF s.total_citations > 0
    THEN Frac(3 * s.total_citations + 7 * s.verified_citations, 10 * s.total_citations)
    ELSE One

\* 1.0 - (high_risk / total) * 0.5
BackendClaimFactor(s) ==
    IF s.total_claims > 0
    THEN Frac(2 * s.total_claims - s.high_risk_claims, 2 * s.total_claims)
    ELSE One

\* 0.6 when any hallucination was detected
BackendMlFactor_MoreThanOne(s) ==
    IF s.ml_detected_hallucinations > 1 THEN Frac(6, 10) ELSE One

BackendMlFactor(s) ==
    IF s.ml_detected_hallucinations > 0 THEN Frac(6, 10) ELSE One

\* src/main.py: max(0, verified/total - hallucinated/total)
RootCitationFactor(s) ==
    IF s.total_citations > 0
    THEN Frac(Max(0, s.verified_citations - s.hallucinated_citations), s.total_citations)
    ELSE One

\* 1.0 - high_risk / total
RootClaimFactor(s) ==
    IF s.total_claims > 0
    THEN Frac(s.total_claims - s.high_risk_claims, s.total_claims)
    ELSE One

\* 1.0 - (ml_detected / (citations + claims)) * 0.5
RootMlFactor(s) ==
    LET total_analyzed == s.total_citations + s.total_claims IN
    IF total_analyzed > 0 /\ s.ml_detected_hallucinations > 0
    THEN Frac(2 * total_analyzed - s.ml_detected_hallucinations, 2 * total_analyzed)
    ELSE One

\* trust_score before it is put in the response
trust_score(s) ==
    IF variant = "backend"
    THEN Clamp01(Times(Times(BackendCitationFactor(s), BackendClaimFactor(s)), BackendMlFactor(s)))
    ELSE Clamp01(Times(Times(RootCitationFactor(s), RootClaimFactor(s)), RootMlFactor(s)))

\* round(x, 2) of src/main.py, as hundredths.  An exact tie is decided by the
\* binary representation of the float, so both neighbours are possible.
Round2(x) ==
    LET q == (100 * x.num) \div x.den
        r == (100 * x.num) % x.den
    IN IF 2 * r < x.den THEN {Frac(q, 100)}
       ELSE IF 2 * r > x.den THEN {Frac(q + 1, 100)}
       ELSE {Frac(q, 100), Frac(q + 1, 100)}

\* overall_trust_score of the response
ResponseScores(s) == IF variant = "backend" THEN {trust_score(s)} ELSE Round2(trust_score(s))

ml_enabled(req) == IF variant = "backend" THEN req.use_ml ELSE req.use_ml /\ models_loaded

----------------------------------------------------------------------------
(* verify_content *)

EmptySummary ==
    [total_citations |-> 0, verified_citations |-> 0, broken_links |-> 0,
     suspicious_citations |-> 0, hallucinated_citations |-> 0,
     total_claims |-> 0, high_risk_claims |-> 0, ml_detected_hallucinations |-> 0]

EmptyResults == [citations |-> <<>>, claims |-> <<>>, summary |-> EmptySummary]

Flagged(opt) == opt # None /\ opt[1].is_hallucination

\* the status tally of one citation result
TallyCitation_FakeAsBroken(s, r) ==
    LET t == CASE r.status = VERIFIED     -> [s EXCEPT !.verified_citations = @ + 1]
               [] r.status = SUSPICIOUS   -> [s EXCEPT !.suspicious_citations = @ + 1]
               [] r.status = HALLUCINATED -> [s EXCEPT !.hallucinated_citations = @ + 1]
               [] OTHER                   -> [s EXCEPT !.broken_links = @ + 1]
    IN IF (variant = "backend" /\ r.status = HALLUCINATED)
          \/ (variant = "root" /\ Flagged(r.ml_analysis))
       THEN [t EXCEPT !.ml_detected_hallucinations = @ + 1]
       ELSE t

TallyCitation(s, r) ==
    IF variant = "backend"
    THEN CASE r.status = VERIFIED     -> [s EXCEPT !.verified_citations = @ + 1]
           [] r.status = BROKEN       -> [s EXCEPT !.broken_links = @ + 1]
           [] r.status = SUSPICIOUS   -> [s EXCEPT !.suspicious_citations = @ + 1]
           [] r.status = HALLUCINATED -> [s EXCEPT !.hallucinated_citations = @ + 1,
                                                   !.ml_detected_hallucinations = @ + 1]
           [] OTHER                   -> s
    ELSE LET t == CASE r.status = VERIFIED     -> [s EXCEPT !.verified_citations = @ + 1]
                    [] r.status = BROKEN       -> [s EXCEPT !.broken_links = @ + 1]
                    [] r.status = HALLUCINATED -> [s EXCEPT !.hallucinated_citations = @ + 1]
                    [] r.status \in {SUSPICIOUS, FAKE}
                                               -> [s EXCEPT !.suspicious_citations = @ + 1]
                    [] OTHER                   -> s
         IN IF Flagged(r.ml_analysis)
            THEN [t EXCEPT !.ml_detected_hallucinations = @ + 1]
            ELSE t

\* the tally of one claim result
TallyClaim(s, r) ==
    LET t == IF r.risk_level = "HIGH" THEN [s EXCEPT !.high_risk_claims = @ + 1] ELSE s
    IN IF Flagged(r.ml_prediction)
       THEN [t EXCEPT !.ml_detected_hallucinations = @ + 1]
       ELSE t

\* results["claims"].append: src/main.py keeps HIGH and MEDIUM results only
KeepClaim(r) == variant = "backend" \/ r.risk_level \in {"HIGH", "MEDIUM"}

\* Requests
TokenMenu ==
    { Token("url", "sound", NoYear, "up", "sound"),
      Token("url", "dubious", NoYear, "gone", "dubious"),
      Token("bracket", "dubious", 2000, NoUrl, ""),
      Token("apa", "sound", ClockYear + 1, "gone", "sound"),
      Token("apa", "sound", 2000, "up", "sound"),
      Token("apa", "dubious", 1700, NoUrl, "") }

PieceMenu ==
    { Sentence("borderline", 25, {}, FALSE, FALSE),
      Sentence("barely", 25, {}, TRUE, TRUE),
      Sentence("dubious", 25, {1, 2}, TRUE, FALSE),
      Sentence("sound", 15, {}, TRUE, TRUE) }

SeqsUpTo(S, n) == UNION {[1..k -> S] : k \in 0..n}

Contents ==
    UNION {{[tokens |-> ts, pieces |-> ps] : ts \in [1..k -> TokenMenu],
                                            ps \in SeqsUpTo(PieceMenu, MaxItems - k)} :
           k \in 0..MaxItems}
    \cup
    {[tokens |-> <<>>, pieces |-> [i \in 1..n |-> p]] : p \in PieceMenu,
                                                        n \in (MaxItems + 1)..LongLen}

Requests ==
    {[content |-> c, check_citations |-> cc, check_claims |-> cl, use_ml |-> ml] :
        c \in Contents, cc \in BOOLEAN, cl \in BOOLEAN, ml \in BOOLEAN}

ValidateIdle ==
    /\ vpc = "off"
    /\ citation = Citation("", NoUrl, NoYear, <<>>)
    /\ use_ml = FALSE
    /\ status = VERIFIED
    /\ reasons = <<>>
    /\ accessibility_score = 100
    /\ ml_analysis = None
    /\ link_checks = <<>>
    /\ call_log = <<>>

InitVerify ==
    /\ EnvInit
    /\ ValidateIdle
    /\ AnalyzeIdle
    /\ pc = "idle"
    /\ request = <<>>
    /\ citations = <<>>
    /\ sentences = <<>>
    /\ idx = 0
    /\ results = <<>>
    /\ response = <<>>

Receive ==
    /\ pc = "idle"
    /\ \E req \in Requests : request' = req
    /\ results' = EmptyResults
    /\ pc' = "citations"
    /\ UNCHANGED <<envvars, valvars, anavars, citations, sentences, idx, response>>

ExtractCitations ==
    /\ pc = "citations"
    /\ IF request.check_citations
       THEN LET found == extract_citations(request.content) IN
            /\ citations' = found
            /\ results' = [results EXCEPT !.summary.total_citations = Len(found)]
            /\ idx' = 1
            /\ pc' = IF Len(found) > 0 THEN "validate" ELSE "claims"
       ELSE /\ pc' = "claims"
            /\ UNCHANGED <<citations, results, idx>>
    /\ UNCHANGED <<envvars, valvars, anavars, request, sentences, response>>

\* the newest result put first
ValidateNext_NewestFirst ==
    /\ pc = "validate"
    /\ LET citation_result == validate_citation(citations[idx], request.use_ml) IN
       results' = [results EXCEPT
                      !.citations = <<citation_result>> \o @,
                      !.summary = TallyCitation(@, citation_result)]
    /\ idx' = idx + 1
    /\ pc' = IF idx < Len(citations) THEN "validate" ELSE "claims"
    /\ UNCHANGED <<envvars, valvars, anavars, request, citations, sentences, response>>

ValidateNext ==
    /\ pc = "validate"
    /\ LET citation_result == validate_citation(citations[idx], request.use_ml) IN
       results' = [results EXCEPT
                      !.citations = Append(@, citation_result),
                      !.summary = TallyCitation(@, citation_result)]
    /\ idx' = idx + 1
    /\ pc' = IF idx < Len(citations) THEN "validate" ELSE "claims"
    /\ UNCHANGED <<envvars, valvars, anavars, request, citations, sentences, response>>

SplitSentences ==
    /\ pc = "claims"
    /\ IF request.check_claims
       THEN LET kept == split_sentences(request.content) IN
            /\ sentences' = kept
            /\ results' = [results EXCEPT !.summary.total_claims = Len(kept)]
            /\ idx' = 1
            /\ pc' = IF Len(kept) > 0 THEN "analyze" ELSE "score"
       ELSE /\ pc' = "score"
            /\ UNCHANGED <<sentences, results, idx>>
    /\ UNCHANGED <<envvars, valvars, anavars, request, citations, response>>

AnalyzeNext ==
    /\ pc = "analyze"
    /\ LET claim_result == analyze_claim(sentences[idx], request.use_ml) IN
       results' = [results EXCEPT
                      !.claims = IF KeepClaim(claim_result) THEN Append(@, claim_result) ELSE @,
                      !.summary = TallyClaim(@, claim_result)]
    /\ idx' = idx + 1
    /\ pc' = IF idx < AnalyzedCount(Len(sentences)) THEN "analyze" ELSE "score"
    /\ UNCHANGED <<envvars, valvars, anavars, request, citations, sentences, response>>

Respond ==
    /\ pc = "score"
    /\ \E score \in ResponseScores(results.summary) :
          response' = Some([summary |-> results.summary,
                            citations |-> results.citations,
                            claims |-> results.claims,
                            overall_trust_score |-> score,
                            ml_enabled |-> ml_enabled(request)])
    /\ pc' = "done"
    /\ UNCHANGED <<envvars, valvars, anavars, request, citations, sentences, idx, results>>

NextVerify ==
    Receive \/ ExtractCitations \/ ValidateNext \/ SplitSentences \/ AnalyzeNext \/ Respond

SpecVerify == InitVerify /\ [][NextVerify]_vars

----------------------------------------------------------------------------
(* One call of analyze_claim, a step at a time.                            *)

Sentences ==
    {Sentence(t, 25, ps, n, s) : t \in Texts, ps \in SUBSET SUSPICIOUS_PATTERNS,
                                 n \in BOOLEAN, s \in BOOLEAN}

CurrentAnalysis == Analysis(a_flags, a_confidence, a_ml_prediction)

SetAnalysis(a) ==
    /\ a_flags' = a.flags
    /\ a_confidence' = a.confidence
    /\ a_ml_prediction' = a.ml_prediction

InitAnalyze ==
    /\ EnvInit
    /\ RequestIdle
    /\ ValidateIdle
    /\ a_claim \in Sentences
    /\ a_use_ml \in BOOLEAN
    /\ apc = "semantic"
    /\ a_flags = InitialAnalysis.flags
    /\ a_confidence = InitialAnalysis.confidence
    /\ a_ml_prediction = InitialAnalysis.ml_prediction
    /\ a_risk_level = ""

AnalyzeSemantic ==
    /\ apc = "semantic"
    /\ SetAnalysis(SemanticStep(CurrentAnalysis, a_claim, a_use_ml))
    /\ apc' = "lexical"
    /\ UNCHANGED <<envvars, valvars, reqvars, a_claim, a_use_ml, a_risk_level>>

AnalyzeLexical ==
    /\ apc = "lexical"
    /\ SetAnalysis(LexicalStep(CurrentAnalysis, a_claim))
    /\ apc' = "statistic"
    /\ UNCHANGED <<envvars, valvars, reqvars, a_claim, a_use_ml, a_risk_level>>

AnalyzeStatistic ==
    /\ apc = "statistic"
    /\ SetAnalysis(StatisticStep(CurrentAnalysis, a_claim))
    /\ apc' = "clamp"
    /\ UNCHANGED <<envvars, valvars, reqvars, a_claim, a_use_ml, a_risk_level>>

\* confidence = min(confidence, 1.0)
AnalyzeClamp ==
    /\ apc = "clamp"
    /\ a_confidence' = Min(a_confidence, 100)
    /\ apc' = "risk"
    /\ UNCHANGED <<envvars, valvars, reqvars, a_claim, a_use_ml, a_flags, a_ml_prediction,
                   a_risk_level>>

\* the risk level, the default flag and the return
AnalyzeReturn ==
    /\ apc = "risk"
    /\ a_risk_level' = RiskLevel(a_confidence)
    /\ a_flags' = ResultFlags(a_flags)
    /\ apc' = "returned"
    /\ UNCHANGED <<envvars, valvars, reqvars, a_claim, a_use_ml, a_confidence, a_ml_prediction>>

NextAnalyze ==
    AnalyzeSemantic \/ AnalyzeLexical \/ AnalyzeStatistic \/ AnalyzeClamp \/ AnalyzeReturn

SpecAnalyze == InitAnalyze /\ [][NextAnalyze]_vars

----------------------------------------------------------------------------
(* validate_citation called again and again by the running service.        *)

MaxCalls == 3

RepeatedCitations ==
    { Citation("dubious", "gone", ClockYear + 1, <<"PER">>),
      Citation("sound", "up", 2000, <<>>),
      Citation("dubious", NoUrl, 1700, <<"PER", "ORG", "PER">>),
      Citation("garbled", "slow", NoYear, <<>>) }

\* the locals a call starts with, whatever the call before left in them
EntryFrame_KeepsReasons(left) == [InitialFrame EXCEPT !.reasons = left.reasons]

EntryFrame(left) == InitialFrame

InitRevalidate ==
    /\ EnvInit
    /\ RequestIdle
    /\ AnalyzeIdle
    /\ link_checks = <<>>
    /\ call_log = <<>>
    /\ citation \in RepeatedCitations
    /\ use_ml \in BOOLEAN
    /\ vpc = "semantic"
    /\ status = InitialFrame.status
    /\ reasons = InitialFrame.reasons
    /\ accessibility_score = InitialFrame.accessibility_score
    /\ ml_analysis = InitialFrame.ml_analysis

\* the next call, with any citation and any use_ml
CallAgain ==
    /\ vpc = "returned"
    /\ Len(call_log) < MaxCalls
    /\ \E c \in RepeatedCitations, ml \in BOOLEAN :
          /\ citation' = c
          /\ use_ml' = ml
    /\ SetFrame(EntryFrame(CurrentFrame))
    /\ link_checks' = <<>>
    /\ vpc' = "semantic"
    /\ UNCHANGED <<envvars, anavars, reqvars, call_log>>

NextRevalidate == NextValidate \/ CallAgain

SpecRevalidate == InitRevalidate /\ [][NextRevalidate]_vars

----------------------------------------------------------------------------
(* One call of either validate_citation or analyze_claim.                  *)

InitCalls == InitValidate \/ InitAnalyze

NextCalls == NextValidate \/ NextAnalyze

SpecCalls == InitCalls /\ [][NextCalls]_vars

----------------------------------------------------------------------------
(* The MLModels singleton: MLModels() calls, the first of them at import,  *)
(* and the requests the service handles with the module-level ml_models.   *)

MaxConstructions == 4
MaxServed == 3

InitModels ==
    /\ variant \in {"backend", "root"}
    /\ hallucination_model = FALSE
    /\ zero_shot_classifier = FALSE
    /\ ner_pipeline = FALSE
    /\ current_year = ClockYear
    /\ instances = 0
    /\ models_loaded = FALSE
    /\ load_models_calls = 0
    /\ constructions = 0
    /\ served = 0
    /\ mpc = "ready"
    /\ ValidateIdle
    /\ AnalyzeIdle
    /\ RequestIdle

\* reload whenever the detector is missing
ShouldLoad_WhenModelMissing == ~hallucination_model

\* if not MLModels._models_loaded
ShouldLoad == ~models_loaded

\* __new__: the instance is created when there is none
New ==
    /\ mpc = "ready"
    /\ constructions < MaxConstructions
    /\ constructions' = constructions + 1
    /\ instances' = IF instances = 0 THEN 1 ELSE instances
    /\ mpc' = "init"
    /\ UNCHANGED <<variant, modelvars, current_year, models_loaded, load_models_calls, served,
                   valvars, anavars, reqvars>>

\* __init__
InitInstance ==
    /\ mpc = "init"
    /\ IF ShouldLoad
       THEN /\ load_models_calls' = load_models_calls + 1
            /\ mpc' = "detector"
       ELSE /\ mpc' = "ready"
            /\ UNCHANGED load_models_calls
    /\ UNCHANGED <<variant, modelvars, current_year, instances, models_loaded, constructions,
                   served, valvars, anavars, reqvars>>

\* load_models: each from_pretrained / pipeline call returns or raises
LoadDetector ==
    /\ mpc = "detector"
    /\ \/ /\ hallucination_model' = TRUE
          /\ mpc' = "classifier"
       \/ /\ mpc' = "except"
          /\ UNCHANGED hallucination_model
    /\ UNCHANGED <<variant, zero_shot_classifier, ner_pipeline, current_year, instances, models_loaded,
                   load_models_calls, constructions, served,
                   valvars, anavars, reqvars>>

LoadClassifier ==
    /\ mpc = "classifier"
    /\ \/ /\ zero_shot_classifier' = TRUE
          /\ mpc' = "ner"
       \/ /\ mpc' = "except"
          /\ UNCHANGED zero_shot_classifier
    /\ UNCHANGED <<variant, hallucination_model, ner_pipeline, current_year, instances, models_loaded,
                   load_models_calls, constructions, served,
                   valvars, anavars, reqvars>>

LoadNer ==
    /\ mpc = "ner"
    /\ \/ /\ ner_pipeline' = TRUE
          /\ mpc' = "mark"
       \/ /\ mpc' = "except"
          /\ UNCHANGED ner_pipeline
    /\ UNCHANGED <<variant, hallucination_model, zero_shot_classifier, current_year,
                   instances, models_loaded,
                   load_models_calls, constructions, served, valvars, anavars, reqvars>>

\* except Exception: the three models are set to None
LoadFailed ==
    /\ mpc = "except"
    /\ hallucination_model' = FALSE
    /\ zero_shot_classifier' = FALSE
    /\ ner_pipeline' = FALSE
    /\ mpc' = "mark"
    /\ UNCHANGED <<variant, current_year, instances, models_loaded,
                   load_models_calls, constructions, served, valvars, anavars, reqvars>>

\* MLModels._models_loaded = True
MarkLoaded ==
    /\ mpc = "mark"
    /\ models_loaded' = TRUE
    /\ mpc' = "ready"
    /\ UNCHANGED <<variant, modelvars, current_year, instances, load_models_calls,
                   constructions, served, valvars, anavars, reqvars>>

\* a request: the handlers read ml_models and construct nothing
Serve ==
    /\ mpc = "ready"
    /\ constructions >= 1
    /\ served < MaxServed
    /\ served' = served + 1
    /\ UNCHANGED <<variant, modelvars, current_year, instances, models_loaded,
                   load_models_calls, constructions, mpc, valvars, anavars, reqvars>>

NextModels ==
    New \/ InitInstance \/ LoadDetector \/ LoadClassifier \/ LoadNer \/ LoadFailed
        \/ MarkLoaded \/ Serve

SpecModels == InitModels /\ [][NextModels]_vars

----------------------------------------------------------------------------
(* The extraction pass of verify_content alone, over a wider set of texts. *)

ExtractionTokenMenu ==
    TokenMenu \cup
    { Token("bracket", "sound", 1999, "up", "sound"),
      RunOnToken("sound", 2000, "up", "sound", "weird") }

ExtractionRequests ==
    {[content |-> [tokens |-> ts, pieces |-> <<>>],
      check_citations |-> cc, check_claims |-> FALSE, use_ml |-> FALSE] :
        ts \in SeqsUpTo(ExtractionTokenMenu, MaxItems), cc \in BOOLEAN}

ReceiveText ==
    /\ pc = "idle"
    /\ \E req \in ExtractionRequests : request' = req
    /\ results' = EmptyResults
    /\ pc' = "citations"
    /\ UNCHANGED <<envvars, valvars, anavars, citations, sentences, idx, response>>

NextExtract == ReceiveText \/ ExtractCitations

SpecExtract == InitVerify /\ [][NextExtract]_vars

----------------------------------------------------------------------------
(* Properties of validate_citation *)

Returned == vpc = "returned"
HasUrl == citation.url # NoUrl
Accessible == HasUrl /\ verify_url(citation.url).accessible
Unreachable == HasUrl /\ ~verify_url(citation.url).accessible
\* the semantic verdict of this call flagged the citation
SemanticFlag == ml_analysis # None /\ ml_analysis[1].is_hallucination
HasYear == citation.year # NoYear
PlausibleYear == citation.year >= 1800 /\ citation.year <= current_year
FutureYear == citation.year > current_year
HasReason(tag) == \E i \in 1..Len(reasons) : reasons[i][1] = tag
SemanticPenalty == IF SemanticFlag THEN 40 ELSE 0

\* C1: a citation with a URL reported accessible, a year within
\* [1800, current year] and no semantic flag is returned VERIFIED, whatever
\* its entities are.
C1_CleanCitationVerified ==
    (Returned /\ Accessible /\ PlausibleYear /\ ~SemanticFlag) => status = VERIFIED

C1_Witness ==
    /\ Returned /\ Accessible /\ PlausibleYear /\ ~SemanticFlag
    /\ ml_analysis # None
    /\ citation.year = current_year
    /\ Len(Persons(citation.entities)) = 2
    /\ status = VERIFIED

\* C2: a citation whose year is greater than the current year is returned
\* FAKE, whatever the semantic verdict, the URL and the entities are.
C2_FutureYearFake ==
    (Returned /\ FutureYear) => status = FAKE

C2_Witness ==
    /\ Returned /\ citation.year = current_year + 1
    /\ SemanticFlag /\ Unreachable
    /\ status = FAKE

\* C3 as stated: a citation with no URL and no semantic flag is returned
\* SUSPICIOUS, with accessibility 0.7 when no year penalty fires.
C3_NoUrlSuspicious ==
    (Returned /\ ~HasUrl /\ ~SemanticFlag) =>
        /\ status = SUSPICIOUS
        /\ (~HasYear \/ PlausibleYear) => accessibility_score = 70

\* C3 amended: a citation with no URL, no semantic flag and no year in the
\* future is returned SUSPICIOUS; its accessibility is 0.7 when the URL rule
\* has run and still 0.7 on return when the year is absent or within
\* [1800, current year].
C3_NoUrlSuspiciousUnlessFuture ==
    /\ (Returned /\ ~HasUrl /\ ~SemanticFlag /\ ~FutureYear) => status = SUSPICIOUS
    /\ (vpc = "year" /\ ~HasUrl /\ ~SemanticFlag) =>
           status = SUSPICIOUS /\ accessibility_score = 70
    /\ (Returned /\ ~HasUrl /\ ~SemanticFlag /\ (~HasYear \/ PlausibleYear)) =>
           accessibility_score = 70

C3_Witness ==
    /\ Returned /\ ~HasUrl /\ ~SemanticFlag /\ PlausibleYear
    /\ ml_analysis # None
    /\ status = SUSPICIOUS /\ accessibility_score = 70

\* C4: an unreachable URL overrides the semantic step: with a year absent or
\* within [1800, current year] the citation is returned BROKEN even when it
\* was flagged, and the 0.5 penalty comes on top of the 0.4 semantic penalty.
C4_BrokenOverridesSemantic ==
    (Returned /\ Unreachable /\ (~HasYear \/ PlausibleYear)) =>
        /\ status = BROKEN
        /\ accessibility_score = 100 - SemanticPenalty - 50

C4_Witness ==
    /\ Returned /\ Unreachable /\ ~HasYear /\ SemanticFlag
    /\ status = BROKEN /\ accessibility_score = 10

\* C5: a flagged citation with no URL and a year absent or within
\* [1800, current year] is returned HALLUCINATED, not SUSPICIOUS, with the
\* no-URL reason and the 0.3 penalty applied.
C5_HallucinatedNotDemoted ==
    (Returned /\ SemanticFlag /\ ~HasUrl /\ (~HasYear \/ PlausibleYear)) =>
        /\ status = HALLUCINATED
        /\ HasReason("No URL provided for verification")
        /\ accessibility_score = 100 - 40 - 30

C5_Witness ==
    /\ Returned /\ SemanticFlag /\ ~HasUrl /\ PlausibleYear
    /\ status = HALLUCINATED /\ accessibility_score = 30

\* C6: a citation that carries a year below 1800 (0000 up to 1799) is
\* returned SUSPICIOUS, whatever the earlier rules set, with its
\* accessibility reduced by 0.2.
C6_OldYearSuspicious ==
    (Returned /\ citation.year >= 0 /\ citation.year < 1800) =>
        /\ status = SUSPICIOUS
        /\ HasReason("Unusually old year")
        /\ accessibility_score =
               Max(0, 100 - SemanticPenalty
                          - (IF ~HasUrl THEN 30 ELSE IF Unreachable THEN 50 ELSE 0) - 20)

----------------------------------------------------------------------------
(* Properties of verify_content *)

Done == pc = "done"
Started == pc # "idle"
CitationsTallied == pc \in {"claims", "analyze", "score", "done"}
CountStatus(st) ==
    Cardinality({i \in 1..Len(results.citations) : results.citations[i].status = st})
ScoreIs(x, n, d) == x.num * d = n * x.den
NonZero(n, x) == IF n > 0 THEN x ELSE 1

\* C7: in the backend variant the trust score of the response is the clamp
\* to [0,1] of 1.0 * (0.3 + 0.7 * verified/total_citations, if any citation)
\* * (1.0 - 0.5 * high_risk/total_claims, if any claim) * (0.6, if the
\* semantic-flagged count is positive), and it lies in [0,1]; 4 citations
\* with 2 verified and nothing else give 0.65.
C7_BackendTrustFormula ==
    (Done /\ variant = "backend") =>
        LET s == response[1].summary
            score == response[1].overall_trust_score
            n == NonZero(s.total_citations, 3 * s.total_citations + 7 * s.verified_citations)
                 * NonZero(s.total_claims, 2 * s.total_claims - s.high_risk_claims)
                 * NonZero(s.ml_detected_hallucinations, 6)
            d == NonZero(s.total_citations, 10 * s.total_citations)
                 * NonZero(s.total_claims, 2 * s.total_claims)
                 * NonZero(s.ml_detected_hallucinations, 10)
        IN /\ score.den > 0
           /\ 0 <= score.num /\ score.num <= score.den
           /\ ScoreIs(score, Max(0, Min(n, d)), d)

C7_Witness ==
    /\ Done /\ variant = "backend"
    /\ response[1].summary.total_citations = 4
    /\ response[1].summary.verified_citations = 2
    /\ response[1].summary.total_claims = 0
    /\ response[1].summary.ml_detected_hallucinations = 0
    /\ ScoreIs(response[1].overall_trust_score, 65, 100)

\* C8 as stated: the trust score is 1.0 exactly when there is no citation,
\* no claim and no semantic-flagged item.
C8_TrustOneIffEmpty ==
    Done =>
        LET s == response[1].summary IN
        ScoreIs(response[1].overall_trust_score, 1, 1)
            <=> (s.total_citations = 0 /\ s.total_claims = 0
                 /\ s.ml_detected_hallucinations = 0)

\* C8 amended: the trust score is 1.0 exactly when no penalty applies: every
\* citation is verified (or there is none), no claim is high-risk (or there
\* is none) and the semantic-flagged count is 0; the empty document is one
\* such case.  (In src/main.py the score is rounded to two decimals, which
\* leaves this true for fewer than 100 citations plus claims.)
C8_TrustOneIffNoPenalty ==
    Done =>
        LET s == response[1].summary IN
        /\ ScoreIs(response[1].overall_trust_score, 1, 1)
             <=> /\ s.total_citations = 0 \/ s.verified_citations = s.total_citations
                 /\ s.total_claims = 0 \/ s.high_risk_claims = 0
                 /\ s.ml_detected_hallucinations = 0
        /\ (s.total_citations = 0 /\ s.total_claims = 0 /\ s.ml_detected_hallucinations = 0)
             => ScoreIs(response[1].overall_trust_score, 1, 1)

C8_Witness ==
    /\ Done
    /\ response[1].summary.total_citations > 0
    /\ response[1].summary.total_claims > 0
    /\ ScoreIs(response[1].overall_trust_score, 1, 1)

\* C9 as stated: every citation result is tallied in the one counter of its
\* final status and a FAKE result in none, so after the citation pass
\* verified + broken + suspicious + hallucinated = total_citations - #FAKE.
C9_OneBucketFakeNone ==
    Started =>
        LET s == results.summary IN
        /\ s.verified_citations = CountStatus(VERIFIED)
        /\ s.broken_links = CountStatus(BROKEN)
        /\ s.suspicious_citations = CountStatus(SUSPICIOUS)
        /\ s.hallucinated_citations = CountStatus(HALLUCINATED)
        /\ (CitationsTallied /\ request.check_citations) =>
               s.verified_citations + s.broken_links + s.suspicious_citations
                 + s.hallucinated_citations = s.total_citations - CountStatus(FAKE)

\* C9 amended: every citation result is tallied in the one counter of its
\* final status; a FAKE result is tallied in no counter in
\* src/backend/main.py and in the suspicious counter in src/main.py, so after
\* the citation pass the four counters add up to total_citations - #FAKE in
\* the former and to total_citations in the latter.
C9_OneBucketPerVariant ==
    Started =>
        LET s == results.summary
            fake_as_suspicious == IF variant = "root" THEN CountStatus(FAKE) ELSE 0
        IN
        /\ s.verified_citations = CountStatus(VERIFIED)
        /\ s.broken_links = CountStatus(BROKEN)
        /\ s.suspicious_citations = CountStatus(SUSPICIOUS) + fake_as_suspicious
        /\ s.hallucinated_citations = CountStatus(HALLUCINATED)
        /\ (CitationsTallied /\ request.check_citations) =>
               s.verified_citations + s.broken_links + s.suspicious_citations
                 + s.hallucinated_citations
               = s.total_citations - CountStatus(FAKE) + fake_as_suspicious

C9_Witness ==
    /\ Done /\ variant = "backend"
    /\ CountStatus(FAKE) = 1 /\ CountStatus(BROKEN) = 1
    /\ CountStatus(HALLUCINATED) = 1 /\ CountStatus(VERIFIED) = 1
    /\ results.summary.total_citations = 4
    /\ results.summary.verified_citations + results.summary.broken_links
         + results.summary.suspicious_citations + results.summary.hallucinated_citations = 3

\* C10: with check_claims every retained sentence is analyzed and yields one
\* claim result: the response holds total_claims claim results and
\* high_risk_claims is the number of retained sentences whose result is HIGH.
C10_EverySentenceAnalyzed ==
    (Done /\ request.check_claims) =>
        LET s == response[1].summary IN
        /\ Len(response[1].claims) = s.total_claims
        /\ s.total_claims = Len(sentences)
        /\ s.high_risk_claims =
               Cardinality({i \in 1..Len(sentences) :
                   analyze_claim(sentences[i], request.use_ml).risk_level = "HIGH"})

----------------------------------------------------------------------------
(* Properties of the order of the results *)

RECURSIVE IsSubsequence(_, _)
\* a is b with some elements left out, the others in b's order
IsSubsequence(a, b) ==
    IF a = <<>> THEN TRUE
    ELSE IF b = <<>> THEN FALSE
    ELSE IF Head(a) = Head(b) THEN IsSubsequence(Tail(a), Tail(b))
    ELSE IsSubsequence(a, Tail(b))

ClaimsOf(claim_results) == [i \in 1..Len(claim_results) |-> claim_results[i].claim]

\* C11: the citation results are in extraction order, the i-th result
\* embedding the i-th extracted citation, one result per citation once the
\* pass is over; the claim results are in sentence order, their sentences
\* being the retained sentences with some left out and none moved.
C11_ResultsKeepOrder ==
    Started =>
        /\ \A i \in 1..Len(results.citations) :
              /\ i <= Len(citations)
              /\ results.citations[i].citation = citations[i]
        /\ CitationsTallied => Len(results.citations) = Len(citations)
        /\ IsSubsequence(ClaimsOf(results.claims), sentences)
        /\ variant = "backend" =>
              \A i \in 1..Len(results.claims) : results.claims[i].claim = sentences[i]
        /\ Done => /\ ClaimsOf(response[1].claims) = ClaimsOf(results.claims)
                   /\ response[1].citations = results.citations

C11_Witness ==
    /\ Done
    /\ Len(response[1].citations) = 2
    /\ response[1].citations[1].citation # response[1].citations[2].citation
    /\ response[1].citations[1].citation = citations[1]
    /\ Len(response[1].claims) = 2
    /\ response[1].claims[1].claim # response[1].claims[2].claim
    /\ response[1].claims[2].claim = sentences[2]

----------------------------------------------------------------------------
(* Properties of analyze_claim *)

Analyzed == apc = "returned"
RuleFlags ==
    {"Likely opinion/speculation", "Overconfident language detected",
     "Specific statistics without source"}
\* the flag-triggering rules whose flag is in a list of flags
FiredRules(fl) == {fl[i] : i \in 1..Len(fl)} \cap RuleFlags

\* C12: the confidence analyze_claim returns is within [0,1], and it is
\* monotone in the rules that fire: with the same collaborator responses
\* (same text, same models, same use_ml) a sentence on which a subset of the
\* rules of this sentence fires never gets a higher confidence than this one.
C12_ConfidenceBoundedMonotone ==
    Analyzed =>
        /\ a_confidence >= 0 /\ a_confidence <= 100
        /\ \A other \in Sentences :
              LET r == analyze_claim(other, a_use_ml) IN
              (other.text = a_claim.text /\ FiredRules(r.flags) \subseteq FiredRules(a_flags))
                  => r.confidence <= a_confidence

C12_Witness ==
    /\ Analyzed
    /\ a_ml_prediction # None
    /\ Cardinality(FiredRules(a_flags)) = 2
    /\ \E other \in Sentences :
          LET r == analyze_claim(other, a_use_ml) IN
          /\ other.text = a_claim.text
          /\ Cardinality(FiredRules(r.flags)) = 1
          /\ FiredRules(r.flags) \subseteq FiredRules(a_flags)
          /\ r.confidence < a_confidence

\* C13: the confidence starts at 0.5 and is never below 0.5 afterwards, at
\* any step of analyze_claim and for every sentence and semantic verdict, and
\* before the upper clamp no step lowers it.
C13_ConfidenceAtLeastHalf ==
    /\ [](apc = "semantic" => a_confidence = 50)
    /\ [](apc # "off" => a_confidence >= 50)
    /\ [][(apc \in {"semantic", "lexical", "statistic"}) => (a_confidence' >= a_confidence)]_vars

C13_Witness ==
    /\ Analyzed
    /\ a_ml_prediction # None
    /\ ~a_ml_prediction[1].is_hallucination
    /\ a_ml_prediction[1].model_score = 50
    /\ a_confidence = 50

\* C14: the risk level is a function of the returned confidence alone:
\* HIGH iff confidence >= 0.7, MEDIUM iff 0.5 <= confidence < 0.7, LOW iff
\* confidence < 0.5.
C14_RiskFromConfidence ==
    Analyzed =>
        /\ a_risk_level \in {"HIGH", "MEDIUM", "LOW"}
        /\ a_risk_level = "HIGH" <=> a_confidence >= 70
        /\ a_risk_level = "MEDIUM" <=> (a_confidence >= 50 /\ a_confidence < 70)
        /\ a_risk_level = "LOW" <=> a_confidence < 50

C14_Witness ==
    /\ Analyzed
    /\ ~a_use_ml
    /\ a_confidence = 70
    /\ a_risk_level = "HIGH"

----------------------------------------------------------------------------
(* Properties of repeated calls *)

\* C15: validate_citation keeps no state between calls: two calls with the
\* same citation and the same use_ml, with the same collaborator responses
\* and the same current year, return identical results, whatever was
\* validated in between, and the result embeds the citation as it was given.
C15_SameCallSameResult ==
    /\ \A i \in 1..Len(call_log) : call_log[i].result.citation = call_log[i].citation
    /\ \A i \in 1..Len(call_log) : \A j \in 1..Len(call_log) :
          (call_log[i].citation = call_log[j].citation /\ call_log[i].use_ml = call_log[j].use_ml)
              => call_log[i].result = call_log[j].result
    /\ \A i \in 1..Len(call_log) :
          call_log[i].result = validate_citation(call_log[i].citation, call_log[i].use_ml)

C15_Witness ==
    /\ Len(call_log) = 3
    /\ call_log[1].citation = call_log[3].citation
    /\ call_log[1].use_ml = call_log[3].use_ml
    /\ call_log[2].citation # call_log[1].citation
    /\ Len(call_log[2].result.reasons) > 1
    /\ call_log[1].result.status = FAKE
    /\ call_log[3].result = call_log[1].result

----------------------------------------------------------------------------
(* Properties of the calls when a collaborator fails or is missing *)

Neutral(opt) ==
    /\ opt # None
    /\ ~opt[1].is_hallucination
    /\ opt[1].confidence = 50
    /\ opt[1].model_score = 50

\* C16: a collaborator that fails or is not loaded never stops a call: both
\* validate_citation and analyze_claim go on to their return; a judgment
\* call that fails gives the neutral verdict (not flagged, 0.5, 0.5), with
\* which validate_citation returns the status and score it returns without
\* the model and analyze_claim keeps its base confidence 0.5; a classifier
\* or entity extractor that fails or is missing gives an empty mapping or
\* list, and no rule fires on it.
C16_CollaboratorFailureNotFatal ==
    /\ vpc \in {"semantic", "url", "year", "entity", "clamp"} => ENABLED NextValidate
    /\ apc \in {"semantic", "lexical", "statistic", "clamp", "risk"} => ENABLED NextAnalyze
    /\ \A t \in Texts :
          /\ (~hallucination_model \/ Inference(t).raises)
                => Neutral(Some(detect_hallucination(t)))
          /\ (~zero_shot_classifier \/ ZeroShot(t).raises) => classify_claim_type(t) = <<>>
          /\ (~ner_pipeline \/ Ner(t).raises) => extract_entities(t) = <<>>
    /\ (Returned /\ use_ml /\ hallucination_model /\ Inference(citation.text).raises) =>
          /\ Neutral(ml_analysis)
          /\ ~HasReason("ML Model")
          /\ status = validate_citation(citation, FALSE).status
          /\ accessibility_score = validate_citation(citation, FALSE).accessibility_score
    /\ (Returned /\ ~hallucination_model) =>
          /\ ml_analysis = None
          /\ ReturnValue(CurrentFrame) = validate_citation(citation, FALSE)
    /\ (Analyzed /\ a_use_ml /\ hallucination_model /\ Inference(a_claim.text).raises) =>
          /\ Neutral(a_ml_prediction)
          /\ "ML Model" \notin {a_flags[i] : i \in 1..Len(a_flags)}
          /\ a_confidence
               = 50 + (IF "Likely opinion/speculation" \in FiredRules(a_flags) THEN 15 ELSE 0)
                    + (IF "Overconfident language detected" \in FiredRules(a_flags)
                       THEN 10 ELSE 0)
                    + (IF "Specific statistics without source" \in FiredRules(a_flags)
                       THEN 10 ELSE 0)
    /\ (Analyzed /\ (~zero_shot_classifier \/ ZeroShot(a_claim.text).raises)) =>
          "Likely opinion/speculation" \notin FiredRules(a_flags)
    /\ (Analyzed /\ ~hallucination_model) =>
          /\ a_ml_prediction = None
          /\ a_confidence = analyze_claim(a_claim, FALSE).confidence

C16_Witness ==
    /\ Returned /\ use_ml /\ hallucination_model
    /\ Inference(citation.text).raises
    /\ Neutral(ml_analysis)
    /\ Accessible /\ PlausibleYear
    /\ status = VERIFIED
    /\ accessibility_score = 100

----------------------------------------------------------------------------
(* Properties of the reachability check inside validate_citation *)

\* what makes requests.head fail, and a URL urlparse finds no scheme or host in
HeadFails == HasUrl /\ citation.url # "malformed" /\ HttpHead(citation.url).raises # ""
Malformed == HasUrl /\ citation.url = "malformed"
YearRuleFired == HasReason("Future year detected") \/ HasReason("Unusually old year")

\* C17: one call of validate_citation calls verify_url exactly once for a
\* citation with a URL and never for one without, and verify_url sends at
\* most one HEAD request; a timeout, a connection failure, any other
\* exception and a malformed URL are reported as not accessible, with the
\* URL penalty and the status BROKEN unless a year rule replaces it, and the
\* call goes on to its return.
C17_ReachabilityCheckedOnce ==
    /\ vpc \in {"year", "entity", "clamp", "returned"} =>
          /\ Len(link_checks) = (IF HasUrl THEN 1 ELSE 0)
          /\ \A i \in 1..Len(link_checks) :
                /\ link_checks[i].url = citation.url
                /\ link_checks[i].head_requests = (IF Malformed THEN 0 ELSE 1)
    /\ vpc \in {"semantic", "url"} => link_checks = <<>>
    /\ (HeadFails \/ Malformed) => ~verify_url(citation.url).accessible
    /\ (vpc = "url" /\ (HeadFails \/ Malformed)) => ENABLED UrlCheck
    /\ (Returned /\ (HeadFails \/ Malformed)) =>
          /\ HasReason("URL not accessible")
          /\ ~HasReason("URL is accessible")
          /\ ~YearRuleFired => status = BROKEN
          /\ accessibility_score <= 50

C17_Witness ==
    /\ Returned
    /\ HeadFails
    /\ HttpHead(citation.url).raises = "Timeout"
    /\ Len(link_checks) = 1
    /\ link_checks[1].head_requests = 1
    /\ status = BROKEN
    /\ SemanticFlag

----------------------------------------------------------------------------
(* Properties of the MLModels singleton *)

\* C18: over any sequence of MLModels() calls and requests load_models is
\* entered at most once, also when that load failed, there is never more
\* than one MLModels object, which every construction returns, and requests
\* are handled with the models as the one load left them.
C18_LoadedOnce ==
    /\ load_models_calls <= 1
    /\ instances <= 1
    /\ constructions >= 1 => instances = 1
    /\ models_loaded => load_models_calls = 1
    /\ (mpc = "ready" /\ constructions >= 1) =>
          /\ models_loaded
          /\ zero_shot_classifier = hallucination_model
          /\ ner_pipeline = hallucination_model
    /\ served > 0 => (models_loaded /\ load_models_calls = 1)

C18_Witness ==
    /\ constructions = 3
    /\ mpc = "ready"
    /\ models_loaded
    /\ ~hallucination_model
    /\ served >= 1
    /\ load_models_calls = 1
    /\ instances = 1

----------------------------------------------------------------------------
(* Properties of extract_citations *)

Extracted == pc \in {"validate", "claims"} /\ request.check_citations
TokensOf(req) == req.content.tokens
ApaAt == {i \in 1..Len(TokensOf(request)) : TokensOf(request)[i].grammar = "apa"}
BracketAt == {i \in 1..Len(TokensOf(request)) : TokensOf(request)[i].grammar = "bracket"}
UrlAt == {i \in 1..Len(TokensOf(request)) : TokensOf(request)[i].bare_url # NoUrl}
\* the k-th smallest element of a set of numbers
Nth(S, k) == CHOOSE i \in S : Cardinality({j \in S : j < i}) = k - 1

\* C19 as stated: besides the order and the count below, the URL that ends
\* an APA match is found again, as the url of a bare-URL citation of its own
\* after the APA and bracketed citations.
C19_ApaUrlCitedTwice ==
    Extracted =>
        \A i \in ApaAt :
            TokensOf(request)[i].url # NoUrl =>
                \E k \in (Cardinality(ApaAt) + Cardinality(BracketAt) + 1)..Len(citations) :
                    /\ citations[k].url = TokensOf(request)[i].url
                    /\ citations[k].year = NoYear

\* C19 amended: the extracted list is all APA matches, then all bracketed
\* matches, then all bare-URL matches, each group in text order, nothing
\* dropped or merged, so its length is the sum of the three match counts;
\* the URL that ends an APA match is found again as a bare-URL citation of
\* its own when it is set off from the text before it, and as part of a
\* longer bare-URL citation when it runs on from a URL inside the title.
C19_ThreePassesConcatenated ==
    Extracted =>
        LET toks == TokensOf(request)
            nA == Cardinality(ApaAt)
            nB == Cardinality(BracketAt)
            nU == Cardinality(UrlAt)
        IN /\ Len(citations) = nA + nB + nU
           /\ \A k \in 1..nA :
                 /\ citations[k].text = toks[Nth(ApaAt, k)].text
                 /\ citations[k].year = toks[Nth(ApaAt, k)].year
                 /\ citations[k].url = toks[Nth(ApaAt, k)].url
           /\ \A k \in 1..nB :
                 /\ citations[nA + k].text = toks[Nth(BracketAt, k)].text
                 /\ citations[nA + k].year = toks[Nth(BracketAt, k)].year
                 /\ citations[nA + k].url = NoUrl
           /\ \A k \in 1..nU :
                 /\ citations[nA + nB + k].text = toks[Nth(UrlAt, k)].url_text
                 /\ citations[nA + nB + k].url = toks[Nth(UrlAt, k)].bare_url
                 /\ citations[nA + nB + k].year = NoYear
           /\ \A i \in ApaAt :
                 (toks[i].url # NoUrl /\ toks[i].bare_url = toks[i].url) =>
                     \E k \in (nA + nB + 1)..Len(citations) :
                         /\ citations[k].url = toks[i].url
                         /\ citations[k].year = NoYear

C19_Witness ==
    /\ Extracted
    /\ Len(TokensOf(request)) = 3
    /\ TokensOf(request)[1].grammar = "url"
    /\ TokensOf(request)[2].grammar = "bracket"
    /\ TokensOf(request)[3].grammar = "apa"
    /\ TokensOf(request)[3].url = "gone"
    /\ Len(citations) = 4
    /\ citations[1].year = ClockYear + 1 /\ citations[1].url = "gone"
    /\ citations[2].url = NoUrl
    /\ citations[3].url # "gone"
    /\ citations[4].url = "gone" /\ citations[4].year = NoYear

----------------------------------------------------------------------------
(* Properties of the accessibility score *)

\* the sum of the penalties of the rules that have fired so far
PenaltySum ==
    (IF HasReason("ML Model") THEN 40 ELSE 0)
    + (IF HasReason("URL not accessible") THEN 50 ELSE 0)
    + (IF HasReason("No URL provided for verification") THEN 30 ELSE 0)
    + (IF HasReason("Future year detected") THEN 40 ELSE 0)
    + (IF HasReason("Unusually old year") THEN 20 ELSE 0)

\* C20: the accessibility score validate_citation returns is within [0,1]
\* and equals max(0, 1.0 - P), P being the sum of the penalties of the rules
\* that fired (0.4 semantic flag, 0.5 unreachable URL or 0.3 missing URL,
\* 0.4 future year or 0.2 year before 1800); no rule ever raises the score,
\* which is 1.0 minus the penalties so far until the lower clamp, applied
\* once as the last step, replaces a negative score by 0.
C20_ScoreFromPenalties ==
    /\ [](vpc \in {"semantic", "url", "year", "entity", "clamp"} =>
             accessibility_score = 100 - PenaltySum)
    /\ [](Returned => /\ accessibility_score >= 0
                      /\ accessibility_score <= 100
                      /\ accessibility_score = Max(0, 100 - PenaltySum))
    /\ [][(vpc \in {"semantic", "url", "year", "entity"})
             => (accessibility_score' <= accessibility_score)]_vars
    /\ [][(vpc = "clamp")
             => (accessibility_score' = Max(0, accessibility_score))]_vars

C20_Witness ==
    /\ Returned
    /\ SemanticFlag /\ Unreachable /\ FutureYear
    /\ PenaltySum = 130
    /\ accessibility_score = 0

----------------------------------------------------------------------------
(* Properties of the lexical rule of analyze_claim *)

LexicalFlag == "Overconfident language detected"
CountFlag(fl, flag) == Cardinality({i \in 1..Len(fl) : fl[i] = flag})
MatchedPatterns == a_claim.patterns \cap SUSPICIOUS_PATTERNS

\* C21: the lexical rule gives at most one flag and one bump per claim: on
\* a sentence that matches one or more of the four patterns the lexical step
\* appends exactly one "overconfident language" flag and raises the
\* confidence by exactly 0.1 (before the clamp); on a sentence that matches
\* none it changes neither, and no other step appends that flag.
C21_LexicalRuleOnce ==
    /\ [][(apc = "lexical") =>
             (IF MatchedPatterns # {}
              THEN /\ a_flags' = Append(a_flags, LexicalFlag)
                   /\ a_confidence' = a_confidence + 10
              ELSE /\ a_flags' = a_flags
                   /\ a_confidence' = a_confidence)]_vars
    /\ [](apc \in {"semantic", "lexical"} => CountFlag(a_flags, LexicalFlag) = 0)
    /\ [](apc \in {"statistic", "clamp", "risk", "returned"} =>
             CountFlag(a_flags, LexicalFlag) = (IF MatchedPatterns # {} THEN 1 ELSE 0))

C21_Witness ==
    /\ Analyzed
    /\ Cardinality(MatchedPatterns) = 4
    /\ ~a_use_ml
    /\ ~a_claim.numeric
    /\ a_flags = <<LexicalFlag>>
    /\ a_confidence = 60

----------------------------------------------------------------------------
(* Properties of the semantic-flagged counter *)

FlaggedCitationResults ==
    Cardinality({i \in 1..Len(results.citations) : Flagged(results.citations[i].ml_analysis)})
FlaggedAnalyzedClaims ==
    Cardinality({i \in 1..AnalyzedCount(Len(sentences)) :
                    Flagged(analyze_claim(sentences[i], request.use_ml).ml_prediction)})

\* C22: after a pass the semantic-flagged counter is the number of citation
\* results whose semantic verdict is flagged plus the number of analyzed
\* claims whose semantic verdict is flagged, whatever status the later rules
\* gave the citation.
C22_FlaggedCounterCountsVerdicts ==
    Done =>
        response[1].summary.ml_detected_hallucinations
            = FlaggedCitationResults + FlaggedAnalyzedClaims

----------------------------------------------------------------------------
(* Properties of the risk level of analyzed claims *)

\* the verdict used, if any, is flagged exactly when its score exceeds 0.5
ConsistentVerdict ==
    a_ml_prediction = None
    \/ (a_ml_prediction[1].is_hallucination <=> a_ml_prediction[1].model_score > 50)

AnalyzedResult == ClaimResult(a_claim, a_confidence, a_risk_level, a_flags, a_ml_prediction)

\* C23: with no semantic verdict, or with one that is flagged exactly when
\* its score exceeds 0.5 (the neutral fallback verdict included), no claim
\* is LOW: every analyzed claim is MEDIUM or HIGH, and the HIGH/MEDIUM filter
\* of src/main.py keeps its result.
C23_LowUnreachable ==
    /\ apc # "off" => ConsistentVerdict
    /\ (Analyzed /\ ConsistentVerdict) =>
          /\ a_risk_level \in {"MEDIUM", "HIGH"}
          /\ KeepClaim(AnalyzedResult)
          /\ AnalyzedResult = analyze_claim(a_claim, a_use_ml)

C23_Witness ==
    /\ Analyzed
    /\ variant = "root"
    /\ a_use_ml
    /\ Neutral(a_ml_prediction)
    /\ Inference(a_claim.text).raises
    /\ a_risk_level = "MEDIUM"
    /\ KeepClaim(AnalyzedResult)

----------------------------------------------------------------------------
(* Properties of the ml_enabled field of the response *)

\* C24: the response reports the semantic judgment as enabled exactly when
\* it was requested and the judgment model is loaded, so not after a failed
\* load; and when it reports it enabled every citation result carries a
\* semantic verdict.
C24_EnabledMeansAvailable ==
    Done =>
        /\ response[1].ml_enabled <=> (request.use_ml /\ hallucination_model)
        /\ response[1].ml_enabled =>
              \A i \in 1..Len(response[1].citations) :
                  response[1].citations[i].ml_analysis # None

====
